---- MODULE Spec2Model ----
(***************************************************************************)
(* A model of the arXiv literature search client (src/client.py):          *)
(* the batch download loops of MainWindow (direct and proxied mode), the   *)
(* search entry point with its reply handlers, the configuration (menus,   *)
(* dialogs, QSettings), and the feed parser, the query builder and the     *)
(* naming of downloaded files on their own; and of search_arxiv,           *)
(* construct_query and download_papers (src/arxiv_search.py).              *)
(*                                                                         *)
(* The GUI is single threaded: a click on the progress dialog's cancel     *)
(* button and the completion of a network reply are only delivered while   *)
(* the code runs QApplication.processEvents().  Every action below is the  *)
(* code between two such points.                                           *)
(***************************************************************************)
EXTENDS Integers, Sequences, FiniteSets, TLC

\* ------------------------------------------------------------------ bounds
MaxPapers == 2
MaxSearches == 2
MaxEntries == 2
MaxTextLen == 3

PaperIds == 1..2

\* A selected paper: the arXiv id its entry_id ends in, and whether the
\* record carries a pdf_url.
Paper == [paper_id : PaperIds, has_pdf : BOOLEAN]

RECURSIVE SeqsUpTo(_, _)
SeqsUpTo(S, n) ==
    IF n = 0 THEN {<<>>}
    ELSE LET shorter == SeqsUpTo(S, n - 1)
         IN  shorter \cup {Append(s, x) : s \in {t \in shorter : Len(t) = n - 1}, x \in S}

Selections == SeqsUpTo(Paper, MaxPapers)

VARIABLES
    use_direct_arxiv,  \* MainWindow.use_direct_arxiv
    pc,                \* position of the download code
    selected_papers,   \* the batch handed to the download function
    i,                 \* loop index (1-based; the code's i + 1)
    wasCanceled,       \* progress.wasCanceled()
    completed,         \* the local counter of saved papers
    requests,          \* every request handed to network_manager, in order
    reply,             \* the code's reply: an index into requests, 0 for none
    file_reply,        \* download_via_server's file_reply, likewise
    files,             \* the destination directory: file name -> content
    report,            \* the summary dialog shown at the end of the batch
    attempted,         \* records whose loop body was entered
    saved,             \* records saved, in order
    cancel_at,         \* where the cancel click was delivered
    io_errors,         \* records whose file could not be written
    search_button,     \* search_button.isEnabled()
    papers,            \* MainWindow.papers: what the export functions write
    table_papers,      \* PaperModel.papers: what the result table shows
    searches,          \* the search replies not yet finished, oldest first
    search_result,     \* how the search handled last ended
    sort_column,       \* sort_combo.currentData()
    sort_desc,         \* sort_order_button.isChecked()
    started,           \* calls of search_papers so far
    issued,            \* search requests handed to network_manager so far
    last_body,         \* the reply the last handler was given: its kind, its
                       \* error text and the records it was normalized into
    search_message,    \* the error text of the last failure dialog
    program,           \* the program of the repository this run follows
    sa_pc,             \* position of search_arxiv
    sa_args,           \* the arguments search_arxiv was called with
    sa_tries,          \* failed tries of the page request so far
    sa_requests,       \* requests the arxiv client has sent for this call
    sa_fetched,        \* the results client.results(search) gave
    sa_return,         \* what search_arxiv returned
    use_local_network, \* MainWindow.use_local_network
    server_url,        \* MainWindow.server_url, the active server
    api_key,           \* MainWindow.api_key, the active key
    local_server_url,  \* the local profile
    local_api_key,
    external_server_url, \* the external profile
    external_api_key,
    settings,          \* QSettings("arXivSearchClient", "Config")
    switched,          \* the last call of a switch function: which one, its
                       \* argument, whether it returned at once; tick tells
                       \* one call from the next
    x_pc,              \* parse_arxiv_api_response on its own: before or after
    x_xml,             \* the document it is given
    x_parsed,          \* what it produced
    q_pc,              \* the query builders on their own: before or after
    q_args,            \* the search criteria they are given
    q_client,          \* search_query of search_via_arxiv_api
    q_server,          \* the result of construct_query
    n_pc,              \* the file naming on its own: before or after
    n_record,          \* the record it is given: entry_id and title
    n_filename,        \* the file name of download_from_arxiv
    n_server           \* the file name of download_papers

dvars == <<use_direct_arxiv, pc, selected_papers, i, wasCanceled, completed,
           requests, reply, file_reply, files, report, attempted, saved, cancel_at,
           io_errors>>

svars == <<search_button, papers, table_papers, searches, search_result,
           sort_column, sort_desc, started, issued, last_body, search_message>>

\* search_arxiv of src/arxiv_search.py
avars == <<program, sa_pc, sa_args, sa_tries, sa_requests, sa_fetched, sa_return>>

\* the configuration; use_direct_arxiv belongs to it as well
cvars == <<use_local_network, server_url, api_key, local_server_url, local_api_key,
           external_server_url, external_api_key, settings, switched>>

\* the download batch without the mode
bvars == <<pc, selected_papers, i, wasCanceled, completed, requests, reply,
           file_reply, files, report, attempted, saved, cancel_at, io_errors>>

\* the pure functions, applied on their own
pvars == <<x_pc, x_xml, x_parsed>>

qvars == <<q_pc, q_args, q_client, q_server>>

nvars == <<n_pc, n_record, n_filename, n_server>>

fvars == <<pvars, qvars, nvars>>

xvars == <<avars, cvars, fvars>>

vars == <<dvars, svars, xvars>>

\* ------------------------------------------------------- network replies
FileNames == 1..2

NoFile == [src |-> 0, whole |-> FALSE]

\* What a finished reply carries.  A PDF transfer carries bytes; the
\* /download endpoint answers with JSON: unparsable (or not an object),
\* success false, success true without download_link, or a download_link.
NoBody == [kind |-> "empty", link |-> 0]
PdfBodies == {[kind |-> "pdf", link |-> 0]}
ResolveBodies ==
    {[kind |-> k, link |-> 0] : k \in {"malformed", "failure", "nolink"}}
        \cup {[kind |-> "link", link |-> f] : f \in FileNames}

NewRequest(rec, kind) ==
    [rec |-> rec, kind |-> kind, state |-> "pending", body |-> NoBody,
     late |-> wasCanceled]

\* reply.isFinished()
isFinished_NoWait(r) == TRUE

isFinished(r) == r.state # "pending"

\* reply.error() == QNetworkReply.NoError: no error has been recorded, which
\* is also what a reply still under way answers.
NoError(r) == r.state \in {"pending", "ok"}

\* reply.abort(): ends a reply still under way; nothing for a finished one.
abort(r) == IF r.state = "pending" THEN [r EXCEPT !.state = "aborted"] ELSE r

\* What one processEvents() can do to the reply waited for.
Arrivals(bodies) ==
    {[state |-> "pending", body |-> NoBody], [state |-> "error", body |-> NoBody]}
        \cup {[state |-> "ok", body |-> b] : b \in bodies}

Clicks == IF wasCanceled THEN {FALSE} ELSE BOOLEAN

\* while not reply.isFinished(): processEvents(); if wasCanceled: abort, break
\* One iteration of the loop on requests[r]; the loop is left for `next`.
WaitLoop(r, here, next, bodies) ==
    /\ pc = here
    /\ IF ~isFinished(requests[r])
       THEN \E a \in Arrivals(bodies), click \in Clicks :
              LET arrived == [requests[r] EXCEPT !.state = a.state, !.body = a.body]
                  cancel  == wasCanceled \/ click
              IN  /\ wasCanceled' = cancel
                  /\ cancel_at' = IF click THEN [point |-> "wait", rec |-> i]
                                           ELSE cancel_at
                  /\ requests' = [requests EXCEPT
                                    ![r] = IF cancel THEN abort(arrived) ELSE arrived]
                  /\ pc' = IF cancel \/ isFinished(arrived) THEN next ELSE here
       ELSE /\ pc' = next
            /\ UNCHANGED <<wasCanceled, cancel_at, requests>>
    /\ UNCHANGED <<use_direct_arxiv, selected_papers, i, completed, reply,
                   file_reply, files, report, attempted, saved, io_errors>>
    /\ UNCHANGED <<svars, xvars>>

\* for i, paper in enumerate(selected_papers): if progress.wasCanceled(): break
\* then progress.setValue(i) and processEvents(), which may deliver a click.
LoopTop(here, body) ==
    /\ pc = here
    /\ IF i > Len(selected_papers) \/ wasCanceled
       THEN /\ pc' = "summary"
            /\ UNCHANGED <<wasCanceled, cancel_at, attempted>>
       ELSE \E click \in Clicks :
              /\ wasCanceled' = click
              /\ cancel_at' = IF click THEN [point |-> "top", rec |-> i] ELSE cancel_at
              /\ attempted' = attempted \cup {i}
              /\ pc' = body
    /\ UNCHANGED <<use_direct_arxiv, selected_papers, i, completed, requests,
                   reply, file_reply, files, report, saved, io_errors>>
    /\ UNCHANGED <<svars, xvars>>

\* if reply.error() == QNetworkReply.NoError and not progress.wasCanceled()
ReplyAccepted_NoCancelCheck(r) == NoError(r)

ReplyAccepted(r) == NoError(r) /\ ~wasCanceled

IoOutcomes == {"ok", "open_fail", "write_fail"}

\* completed += 1, reached only when open() and write() raised nothing
CountSaved_BeforeWrite(c, io) == c + 1

CountSaved(c, io) == IF io = "ok" THEN c + 1 ELSE c

\* a write that leaves a file already there as it is
WriteFile_KeepExisting(name, src, io) ==
    IF io = "open_fail" \/ files[name].src # 0 THEN files
    ELSE [files EXCEPT ![name] = [src |-> src, whole |-> (io = "ok")]]

\* with open(filepath, "wb") as f: f.write(...)
WriteFile(name, src, io) ==
    IF io = "open_fail" THEN files
    ELSE [files EXCEPT ![name] = [src |-> src, whole |-> (io = "ok")]]

\* ------------------------------------------------------ download_selected
download_selected ==
    /\ pc = "idle"
    /\ \E sel \in Selections, dir_chosen \in BOOLEAN :
         IF sel = <<>> \/ ~dir_chosen
         THEN UNCHANGED <<dvars, xvars>>
         ELSE /\ selected_papers' = sel
              /\ pc' = IF use_direct_arxiv THEN "d_top" ELSE "p_top"
              /\ UNCHANGED <<use_direct_arxiv, i, wasCanceled, completed, requests,
                             reply, file_reply, files, report, attempted, saved,
                             cancel_at, io_errors>>
    /\ UNCHANGED <<svars, xvars>>

\* ---------------------------------------------------- download_from_arxiv
DirectFileName(paper) == paper.paper_id

\* pdf_url = paper.get("pdf_url"); if not pdf_url: continue
HasPdfUrl_Unchecked(paper) == TRUE

HasPdfUrl(paper) == paper.has_pdf

DirectLoopTop == LoopTop("d_top", "d_fetch")

DirectFetch ==
    /\ pc = "d_fetch"
    /\ IF ~HasPdfUrl(selected_papers[i])
       THEN /\ i' = i + 1
            /\ pc' = "d_top"
            /\ UNCHANGED <<requests, reply>>
       ELSE /\ requests' = Append(requests, NewRequest(i, "GET"))
            /\ reply' = Len(requests) + 1
            /\ pc' = "d_wait"
            /\ UNCHANGED i
    /\ UNCHANGED <<use_direct_arxiv, selected_papers, wasCanceled, completed,
                   file_reply, files, report, attempted, saved, cancel_at, io_errors>>
    /\ UNCHANGED <<svars, xvars>>

DirectWait == WaitLoop(reply, "d_wait", "d_save", PdfBodies)

DirectSave ==
    /\ pc = "d_save"
    /\ IF ReplyAccepted(requests[reply])
       THEN \E io \in IoOutcomes :
              /\ files' = WriteFile(DirectFileName(selected_papers[i]), reply, io)
              /\ completed' = CountSaved(completed, io)
              /\ saved' = IF io = "ok" THEN Append(saved, i) ELSE saved
              /\ io_errors' = IF io = "ok" THEN io_errors ELSE io_errors \cup {i}
       ELSE UNCHANGED <<files, completed, saved, io_errors>>
    /\ i' = i + 1
    /\ pc' = "d_top"
    /\ UNCHANGED <<use_direct_arxiv, selected_papers, wasCanceled, requests, reply,
                   file_reply, report, attempted, cancel_at>>
    /\ UNCHANGED <<svars, xvars>>

\* ---------------------------------------------------- download_via_server
\* json.loads(...) gives an object whose .get can be called
JsonObject(body) == body.kind \in {"failure", "nolink", "link"}

\* response_data.get("success")
Success(body) == body.kind \in {"nolink", "link"}

\* download_link = response_data.get("download_link"); if download_link:
HasLink_Unchecked(body) == TRUE

HasLink(body) == body.kind = "link"

ProxiedLoopTop == LoopTop("p_top", "p_post")

ProxiedPost ==
    /\ pc = "p_post"
    /\ requests' = Append(requests, NewRequest(i, "POST"))
    /\ reply' = Len(requests) + 1
    /\ pc' = "p_wait"
    /\ UNCHANGED <<use_direct_arxiv, selected_papers, i, wasCanceled, completed,
                   file_reply, files, report, attempted, saved, cancel_at, io_errors>>
    /\ UNCHANGED <<svars, xvars>>

ProxiedWait == WaitLoop(reply, "p_wait", "p_resolved", ResolveBodies)

ProxiedResolved ==
    /\ pc = "p_resolved"
    /\ IF ReplyAccepted(requests[reply])
       THEN LET body == requests[reply].body
            IN  IF ~JsonObject(body)
                THEN /\ pc' = "crashed"
                     /\ UNCHANGED <<i, requests, file_reply>>
                ELSE IF Success(body) /\ HasLink(body)
                THEN /\ requests' = Append(requests, NewRequest(i, "FILE"))
                     /\ file_reply' = Len(requests) + 1
                     /\ pc' = "p_fwait"
                     /\ UNCHANGED i
                ELSE /\ i' = i + 1
                     /\ pc' = "p_top"
                     /\ UNCHANGED <<requests, file_reply>>
       ELSE /\ i' = i + 1
            /\ pc' = "p_top"
            /\ UNCHANGED <<requests, file_reply>>
    /\ UNCHANGED <<use_direct_arxiv, selected_papers, wasCanceled, completed, reply,
                   files, report, attempted, saved, cancel_at, io_errors>>
    /\ UNCHANGED <<svars, xvars>>

ProxiedFileWait == WaitLoop(file_reply, "p_fwait", "p_save", PdfBodies)

ProxiedSave ==
    /\ pc = "p_save"
    /\ IF ReplyAccepted(requests[file_reply])
       THEN \E io \in IoOutcomes :
              /\ files' = WriteFile(requests[reply].body.link, file_reply, io)
              /\ completed' = CountSaved(completed, io)
              /\ saved' = IF io = "ok" THEN Append(saved, i) ELSE saved
              /\ io_errors' = IF io = "ok" THEN io_errors ELSE io_errors \cup {i}
              /\ i' = IF io = "ok" THEN i + 1 ELSE i
              /\ pc' = IF io = "ok" THEN "p_top" ELSE "crashed"
       ELSE /\ i' = i + 1
            /\ pc' = "p_top"
            /\ UNCHANGED <<files, completed, saved, io_errors>>
    /\ UNCHANGED <<use_direct_arxiv, selected_papers, wasCanceled, requests, reply,
                   file_reply, report, attempted, cancel_at>>
    /\ UNCHANGED <<svars, xvars>>

\* ----------------------------------------------------------- the summary
Summary ==
    /\ pc = "summary"
    /\ report' = IF completed > 0 THEN "information" ELSE "warning"
    /\ pc' = "done"
    /\ UNCHANGED <<use_direct_arxiv, selected_papers, i, wasCanceled, completed,
                   requests, reply, file_reply, files, attempted, saved, cancel_at,
                   io_errors>>
    /\ UNCHANGED <<svars, xvars>>

NoCancel == [point |-> "none", rec |-> 0]

DownloadIdle ==
    /\ pc = "idle"
    /\ selected_papers = <<>>
    /\ i = 1
    /\ wasCanceled = FALSE
    /\ completed = 0
    /\ requests = <<>>
    /\ reply = 0
    /\ file_reply = 0
    /\ files = [f \in FileNames |-> NoFile]
    /\ report = "none"
    /\ attempted = {}
    /\ saved = <<>>
    /\ cancel_at = NoCancel
    /\ io_errors = {}

Next ==
    \/ download_selected
    \/ DirectLoopTop
    \/ DirectFetch
    \/ DirectWait
    \/ DirectSave
    \/ ProxiedLoopTop
    \/ ProxiedPost
    \/ ProxiedWait
    \/ ProxiedResolved
    \/ ProxiedFileWait
    \/ ProxiedSave
    \/ Summary

\* ================================================================ search
\* Texts of keywords_edit, over a blank and a letter: empty, blank only, one
\* token, two tokens.
Keywords == {<<>>, <<" ">>, <<"a">>, <<"a", " ", "a">>}

\* str.split(): the maximal runs of non-blank characters, in order.
RECURSIVE SplitFrom(_, _, _)
SplitFrom(str, k, word) ==
    IF k > Len(str)
    THEN IF word = <<>> THEN <<>> ELSE <<word>>
    ELSE IF str[k] = " "
    THEN (IF word = <<>> THEN <<>> ELSE <<word>>) \o SplitFrom(str, k + 1, <<>>)
    ELSE SplitFrom(str, k + 1, Append(word, str[k]))

Split(str) == SplitFrom(str, 1, <<>>)

\* A record of the result list, by the two columns the table can sort on and
\* its entry_id ("" when the feed gave none).
PaperRec ==
    {[title |-> 1, published |-> 2, entry_id |-> "id"],
     [title |-> 2, published |-> 1, entry_id |-> "id"]}

\* The child nodes of an entry that the parser reads for every record.
Nodes == {"title", "summary", "published", "updated", "id"}

\* An entry of the Atom feed: its title and date, and the node it lacks.
EntryOf(paper, lacks) ==
    [title |-> paper.title, published |-> paper.published, lacks |-> lacks]

\* the entries of every shape
AnyEntry == {EntryOf(paper, lacks) : paper \in PaperRec, lacks \in Nodes \cup {"none"}}

\* the entries the search form is answered with: the complete ones (a feed
\* that makes the parser raise is there the unparsable one)
Entry == {EntryOf(paper, "none") : paper \in PaperRec}

FeedsOf(entries) ==
    [kind : {"feed"}, entries : SeqsUpTo(entries, MaxEntries)]
        \cup {[kind |-> "unparsable", entries |-> <<>>]}

Feeds == FeedsOf(Entry)

\* The JSON answer of /search; error "" is an object without an error member.
Envelopes ==
    {[kind |-> k, papers |-> <<>>, error |-> ""] :
        k \in {"notjson", "notobject", "noflag", "failure", "nopapers"}}
        \cup {[kind |-> "failure", papers |-> <<>>, error |-> "bad query"]}
        \cup [kind : {"success"}, papers : SeqsUpTo(PaperRec, MaxEntries), error : {""}]

ErrorText_Default(json) == "unknown error"

\* response.get("error", "未知错误")
ErrorText(json) == IF json.error = "" THEN "unknown error" ELSE json.error

\* sorted(papers, key=..., reverse=...): stable in both directions.
Before(a, b, column, desc) ==
    LET ka == IF column = "title" THEN a.title ELSE a.published
        kb == IF column = "title" THEN b.title ELSE b.published
    IN  IF desc THEN ka > kb ELSE ka < kb

RECURSIVE Insert(_, _, _, _)
Insert(sorted, x, column, desc) ==
    IF sorted = <<>> THEN <<x>>
    ELSE IF Before(x, sorted[Len(sorted)], column, desc)
    THEN Append(Insert(SubSeq(sorted, 1, Len(sorted) - 1), x, column, desc),
                sorted[Len(sorted)])
    ELSE Append(sorted, x)

RECURSIVE Sorted(_, _, _)
Sorted(seq, column, desc) ==
    IF seq = <<>> THEN <<>>
    ELSE Insert(Sorted(SubSeq(seq, 1, Len(seq) - 1), column, desc),
                seq[Len(seq)], column, desc)

sort_papers_ByTitle(list) == Sorted(list, "title", FALSE)

\* MainWindow.sort_papers, on the table model's list
sort_papers(list) ==
    IF sort_column = "none" THEN list ELSE Sorted(list, sort_column, sort_desc)

\* if not keywords: the text itself is tested, not its tokens
Rejected(keywords) == keywords = <<>>

\* search_papers, started by the button (when enabled) or by Return in the
\* keyword field (always).
search_papers ==
    /\ started < MaxSearches
    /\ \E trigger \in {"clicked", "returnPressed"}, keywords \in Keywords :
         /\ trigger = "clicked" => search_button
         /\ started' = started + 1
         /\ table_papers' = <<>>
         /\ IF Rejected(keywords)
            THEN /\ search_result' = "validation"
                 /\ search_button' = TRUE
                 /\ UNCHANGED <<searches, issued>>
            ELSE /\ search_button' = FALSE
                 /\ searches' = Append(searches,
                        [method   |-> IF use_direct_arxiv THEN "GET" ELSE "POST",
                         keywords |-> keywords])
                 /\ issued' = issued + 1
                 /\ UNCHANGED search_result
    /\ UNCHANGED <<papers, sort_column, sort_desc, last_body, search_message>>
    /\ UNCHANGED <<dvars, xvars>>

Remove(seq, k) == SubSeq(seq, 1, k - 1) \o SubSeq(seq, k + 1, Len(seq))

\* entry.find(node).text raises when the node is missing; the id node alone
\* is tested for None
Raises(entry) == entry.lacks \in {"title", "summary", "published", "updated"}

append_unique(list, paper) ==
    IF \E k \in 1..Len(list) : list[k] = paper THEN list ELSE Append(list, paper)

\* papers.append(paper)
append(list, paper) == Append(list, paper)

\* parse_arxiv_api_response: the records of the feed, or "raise" when the
\* document is unparsable or an entry raises.
RECURSIVE ParseEntries(_)
ParseEntries(entries) ==
    IF entries = <<>> THEN [raised |-> FALSE, papers |-> <<>>]
    ELSE LET head == ParseEntries(SubSeq(entries, 1, Len(entries) - 1))
             entry == entries[Len(entries)]
         IN  IF head.raised \/ Raises(entry)
             THEN [raised |-> TRUE, papers |-> <<>>]
             ELSE [raised |-> FALSE,
                   papers |-> append(head.papers,
                                 [title |-> entry.title, published |-> entry.published,
                                  entry_id |-> IF entry.lacks = "id" THEN "" ELSE "id"])]

parse_arxiv_api_response(xml) ==
    IF xml.kind = "unparsable" THEN [raised |-> TRUE, papers |-> <<>>]
    ELSE ParseEntries(xml.entries)

\* the button enabled again only when the reply brought results
setEnabled_OnSuccess(result, enabled) == result = "found" \/ enabled

\* self.search_button.setEnabled(True), the first statement of both handlers
setEnabled(result, enabled) == TRUE

\* handle_arxiv_api_reply, run when a GET reply finishes
handle_arxiv_api_reply ==
    \E k \in 1..Len(searches) :
      /\ searches[k].method = "GET"
      /\ searches' = Remove(searches, k)
      /\ search_message' = ""
      /\ \/ /\ search_result' = "network"
            /\ last_body' = [kind |-> "error", error |-> "", records |-> <<>>]
            /\ UNCHANGED <<papers, table_papers>>
         \/ \E xml \in Feeds :
              LET parsed == parse_arxiv_api_response(xml)
              IN  /\ last_body' = [kind |-> xml.kind, error |-> "",
                                   records |-> parsed.papers]
                  /\ IF parsed.raised
                     THEN /\ search_result' = "parse"
                          /\ UNCHANGED <<papers, table_papers>>
                     ELSE /\ papers' = parsed.papers
                          /\ table_papers' = sort_papers(parsed.papers)
                          /\ search_result' = "found"
      /\ search_button' = setEnabled(search_result', search_button)
      /\ UNCHANGED <<sort_column, sort_desc, started, issued>>
      /\ UNCHANGED <<dvars, xvars>>

\* handle_search_reply and display_results, run when a POST reply finishes
handle_search_reply ==
    \E k \in 1..Len(searches) :
      /\ searches[k].method = "POST"
      /\ searches' = Remove(searches, k)
      /\ \/ /\ search_result' = "network"
            /\ last_body' = [kind |-> "error", error |-> "", records |-> <<>>]
            /\ search_message' = ""
            /\ UNCHANGED <<papers, table_papers>>
         \/ \E json \in Envelopes :
              /\ last_body' = [kind |-> json.kind, error |-> json.error,
                               records |-> json.papers]
              /\ IF json.kind \in {"notjson", "notobject"}
                 THEN /\ search_result' = "parse"
                      /\ search_message' = ""
                      /\ UNCHANGED <<papers, table_papers>>
                 ELSE IF json.kind \in {"noflag", "failure"}
                 THEN /\ search_result' = "backend"
                      /\ search_message' = ErrorText(json)
                      /\ UNCHANGED <<papers, table_papers>>
                 ELSE /\ papers' = json.papers
                      /\ table_papers' = sort_papers(json.papers)
                      /\ search_message' = ""
                      /\ search_result' = "found"
      /\ search_button' = setEnabled(search_result', search_button)
      /\ UNCHANGED <<sort_column, sort_desc, started, issued>>
      /\ UNCHANGED <<dvars, xvars>>

\* sort_combo.currentIndexChanged -> sort_papers
sort_changed ==
    /\ \E column \in {"none", "title", "published"} :
         /\ column # sort_column
         /\ sort_column' = column
         /\ table_papers' = IF column = "none" THEN table_papers
                            ELSE Sorted(table_papers, column, sort_desc)
    /\ UNCHANGED <<search_button, papers, searches, search_result, sort_desc,
                   started, issued, last_body, search_message>>
    /\ UNCHANGED <<dvars, xvars>>

\* sort_order_button.toggled -> toggle_sort_order
toggle_sort_order ==
    /\ sort_desc' = ~sort_desc
    /\ table_papers' = IF sort_column = "none" THEN table_papers
                       ELSE Sorted(table_papers, sort_column, sort_desc')
    /\ UNCHANGED <<search_button, papers, searches, search_result, sort_column,
                   started, issued, last_body, search_message>>
    /\ UNCHANGED <<dvars, xvars>>

SearchIdle ==
    /\ search_button = TRUE
    /\ papers = <<>>
    /\ table_papers = <<>>
    /\ searches = <<>>
    /\ search_result = "none"
    /\ sort_column = "none"
    /\ sort_desc = FALSE
    /\ started = 0
    /\ issued = 0
    /\ last_body = [kind |-> "none", error |-> "", records |-> <<>>]
    /\ search_message = ""

\* ============================================= src/arxiv_search.py
SearchModes == {"precise", "fuzzy"}

\* f"(ti:{keyword} AND abs:{keyword})" and f"(ti:{keyword} OR abs:{keyword})":
\* a string is the sequence of its pieces, a keyword that of its characters.
Clause(keyword, search_mode) ==
    <<"(", "ti:">> \o keyword
        \o <<IF search_mode = "precise" THEN " AND " ELSE " OR ", "abs:">>
        \o keyword \o <<")">>

\* sep.join(parts)
RECURSIVE Join(_, _)
Join(parts, sep) ==
    IF parts = <<>> THEN <<>>
    ELSE IF Len(parts) = 1 THEN parts[1]
    ELSE parts[1] \o <<sep>> \o Join(Tail(parts), sep)

construct_query(keywords, search_mode) ==
    LET keyword_list == Split(keywords)
    IN  IF keyword_list = <<>> THEN <<>>
        ELSE IF Len(keyword_list) = 1 THEN Clause(keyword_list[1], search_mode)
        ELSE Join([k \in 1..Len(keyword_list) |-> Clause(keyword_list[k], search_mode)],
                  " AND ")

\* arxiv.Client(..., num_retries=3)
num_retries == 3

\* Years of the range arguments; 0 is None.  A record's published value is
\* its year.
Years == 0..2

SearchArgs ==
    [keywords : Keywords, start_year : Years, end_year : Years,
     search_mode : SearchModes]

NoArgs == [keywords |-> <<>>, start_year |-> 0, end_year |-> 0, search_mode |-> "precise"]

YearFilter_StartOnly(results, start_year, end_year) ==
    SelectSeq(results, LAMBDA paper : ~(start_year # 0 /\ paper.published < start_year))

\* the year filter at the end of search_arxiv
YearFilter(results, start_year, end_year) ==
    IF start_year # 0 \/ end_year # 0
    THEN SelectSeq(results,
                   LAMBDA paper : /\ ~(start_year # 0 /\ paper.published < start_year)
                                  /\ ~(end_year # 0 /\ paper.published > end_year))
    ELSE results

\* search_arxiv up to the first request of client.results(search); max_results
\* is within page_size, so the results are one page.
search_arxiv ==
    /\ program = "server"
    /\ sa_pc = "idle"
    /\ \E args \in SearchArgs :
         /\ sa_args' = args
         /\ IF construct_query(args.keywords, args.search_mode) = <<>>
            THEN /\ sa_pc' = "returned"
                 /\ UNCHANGED sa_requests
            ELSE /\ sa_pc' = "fetching"
                 /\ sa_requests' = 1
    /\ UNCHANGED <<program, sa_tries, sa_fetched, sa_return>>
    /\ UNCHANGED <<dvars, svars, cvars, fvars>>

MayRetry_OnceMore(tries) == tries < num_retries + 1

\* the arxiv client's retry rule: a failing request is sent again until it
\* has been retried num_retries times
MayRetry(tries) == tries < num_retries

\* the page request fails: it is sent again, or client.results raises and
\* search_arxiv returns []
page_failed ==
    /\ sa_pc = "fetching"
    /\ IF MayRetry(sa_tries)
       THEN /\ sa_tries' = sa_tries + 1
            /\ sa_requests' = sa_requests + 1
            /\ UNCHANGED <<sa_pc, sa_return>>
       ELSE /\ sa_pc' = "returned"
            /\ sa_return' = <<>>
            /\ UNCHANGED <<sa_tries, sa_requests>>
    /\ UNCHANGED <<program, sa_args, sa_fetched>>
    /\ UNCHANGED <<dvars, svars, cvars, fvars>>

\* the page arrives: the results are filtered by year and returned
page_arrived ==
    /\ sa_pc = "fetching"
    /\ \E results \in SeqsUpTo(PaperRec, MaxEntries) :
         /\ sa_fetched' = results
         /\ sa_return' = YearFilter(results, sa_args.start_year, sa_args.end_year)
    /\ sa_pc' = "returned"
    /\ UNCHANGED <<program, sa_args, sa_tries, sa_requests>>
    /\ UNCHANGED <<dvars, svars, cvars, fvars>>

ServerIdle ==
    /\ sa_pc = "idle"
    /\ sa_args = NoArgs
    /\ sa_tries = 0
    /\ sa_requests = 0
    /\ sa_fetched = <<>>
    /\ sa_return = <<>>

\* ===================================================== the pure functions
\* parse_arxiv_api_response applied to a document
parse ==
    /\ x_pc = "document"
    /\ x_pc' = "parsed"
    /\ x_parsed' = parse_arxiv_api_response(x_xml)
    /\ UNCHANGED <<x_xml, qvars, nvars>>
    /\ UNCHANGED <<dvars, svars, avars, cvars>>

NotParsed == [raised |-> FALSE, papers |-> <<>>]

ParseIdle ==
    /\ x_pc = "document"
    /\ x_parsed = NotParsed

\* f'all:"{term}"'
TermClause(term) == <<"all:", "\"">> \o term \o <<"\"">>

\* the spin boxes' years as they are written into the query
YearText(year) == IF year = 1 THEN "2010" ELSE "2020"

DateClause_StartOnly(start_year, end_year) ==
    IF start_year # 0
    THEN <<" AND ", "submittedDate:[", YearText(start_year), "0101", " TO ",
           "99991231", "]">>
    ELSE <<>>

\* the date clause appended by search_via_arxiv_api
DateClause(start_year, end_year) ==
    IF start_year # 0 /\ end_year # 0
    THEN <<" AND ", "submittedDate:[", YearText(start_year), "0101", " TO ",
           YearText(end_year), "1231", "]">>
    ELSE IF start_year # 0
    THEN <<" AND ", "submittedDate:[", YearText(start_year), "0101", " TO ",
           "99991231", "]">>
    ELSE IF end_year # 0
    THEN <<" AND ", "submittedDate:[", "00010101", " TO ", YearText(end_year),
           "1231", "]">>
    ELSE <<>>

\* the search_query parameter built by search_via_arxiv_api
search_query(keywords, search_mode, start_year, end_year) ==
    LET query_terms == Split(keywords)
        clauses == [k \in 1..Len(query_terms) |-> TermClause(query_terms[k])]
    IN  Join(clauses, IF search_mode = "precise" THEN " AND " ELSE " OR ")
            \o DateClause(start_year, end_year)

\* the texts of the keyword field, over a blank and two letters
Texts == SeqsUpTo({" ", "a", "b"}, MaxTextLen)

Criteria ==
    [keywords : Texts, start_year : Years, end_year : Years, search_mode : SearchModes]

\* both query builders applied to the same criteria
build_query ==
    /\ q_pc = "criteria"
    /\ q_pc' = "built"
    /\ q_client' = search_query(q_args.keywords, q_args.search_mode,
                                q_args.start_year, q_args.end_year)
    /\ q_server' = construct_query(q_args.keywords, q_args.search_mode)
    /\ UNCHANGED <<q_args, pvars, nvars>>
    /\ UNCHANGED <<dvars, svars, avars, cvars>>

QueryIdle ==
    /\ q_pc = "criteria"
    /\ q_client = <<>>
    /\ q_server = <<>>

\* str.isalnum(), the characters kept beside, and some of the others
Alnum == {"a", "1", "p", "d", "f"}

Kept == {"-", "_", ".", " "}

Others == {"/", ":", "*"}

\* safe_title[:50]
title_cap == 50

\* c if c.isalnum() or c in ['-', '_', '.', ' '] else '_'
SafeChar(c) == IF c \in Alnum \cup Kept THEN c ELSE "_"

\* c if c.isalnum() else "_"
AlnumChar(c) == IF c \in Alnum THEN c ELSE "_"

\* text[:n]
Prefix(text, n) == SubSeq(text, 1, IF Len(text) < n THEN Len(text) ELSE n)

\* entry_id.split("/")[-1]: what follows the last slash
LastSegment(entry_id) ==
    LET slashes == {k \in 1..Len(entry_id) : entry_id[k] = "/"}
    IN  IF slashes = {} THEN entry_id
        ELSE SubSeq(entry_id, (CHOOSE k \in slashes : \A j \in slashes : j <= k) + 1,
                    Len(entry_id))

Pdf == <<".", "p", "d", "f">>

\* f"{paper_id}_{safe_title}.pdf" of download_from_arxiv
filename(entry_id, paper_title) ==
    LastSegment(entry_id) \o <<"_">>
        \o Prefix([k \in 1..Len(paper_title) |-> SafeChar(paper_title[k])], title_cap)
        \o Pdf

\* f"{paper_id}_{safe_title}.pdf" of download_papers
server_filename(entry_id, title) ==
    LastSegment(entry_id) \o <<"_">>
        \o Prefix([k \in 1..Len(title) |-> AlnumChar(title[k])], title_cap)
        \o Pdf

\* a text of one character, n times
Repeat(c, n) == [k \in 1..n |-> c]

\* titles: the short ones, and long ones around the cap
Titles ==
    SeqsUpTo({"a", ".", "*"}, MaxTextLen)
        \cup {Repeat(c, n) : c \in {"a", "*"}, n \in {title_cap, title_cap + 1}}

\* entry ids: the short ones, and a long one
EntryIds ==
    SeqsUpTo({"1", "/", ":"}, MaxTextLen) \cup {Repeat("1", title_cap + 1)}

\* both file names of a record
name_file ==
    /\ n_pc = "record"
    /\ n_pc' = "named"
    /\ n_filename' = filename(n_record.entry_id, n_record.title)
    /\ n_server' = server_filename(n_record.entry_id, n_record.title)
    /\ UNCHANGED <<n_record, pvars, qvars>>
    /\ UNCHANGED <<dvars, svars, avars, cvars>>

NameIdle ==
    /\ n_pc = "record"
    /\ n_filename = <<>>
    /\ n_server = <<>>

NoRecord == [entry_id |-> <<>>, title |-> <<>>]

\* the functions are not run: the other specifications
FunctionsIdle ==
    /\ ParseIdle
    /\ x_xml = [kind |-> "feed", entries |-> <<>>]
    /\ QueryIdle
    /\ q_args = NoArgs
    /\ NameIdle
    /\ n_record = NoRecord

\* ========================================================= configuration
ArxivUrl == "https://export.arxiv.org/api/query"
LocalUrl == "http://127.0.0.1:5000"
ExternalUrl == "http://example.com:80"
DefaultKey == "your_secret_api_key"

\* what the url and key fields of the dialogs can hold
Urls == {LocalUrl, ExternalUrl}
Keys == {"", "key"}

StoreKeys ==
    {"serverUrl", "apiKey", "useDirectArxiv", "useLocalNetwork", "localServerUrl",
     "localApiKey", "externalServerUrl", "externalApiKey"}

\* the store before the program ever wrote to it
NoSettings == [k \in StoreKeys |-> "unset"]

\* settings.value(key, default)
value(key, default) == IF settings[key] = "unset" THEN default ELSE settings[key]

\* a bool as the store holds it, and settings.value(..., type=bool)
Stored(b) == IF b THEN "true" ELSE "false"

Bool(v) == v = "true"

\* settings.setValue for several keys
setValues(new) ==
    [k \in StoreKeys |-> IF k \in DOMAIN new THEN new[k] ELSE settings[k]]

\* load_config as a relation between the store and the window's fields
Loaded(direct, local, url, key, lurl, lkey, eurl, ekey) ==
    /\ direct = Bool(value("useDirectArxiv", "false"))
    /\ local = Bool(value("useLocalNetwork", "false"))
    /\ lurl = value("localServerUrl", LocalUrl)
    /\ lkey = value("localApiKey", DefaultKey)
    /\ eurl = value("externalServerUrl", ExternalUrl)
    /\ ekey = value("externalApiKey", DefaultKey)
    /\ url = IF direct THEN ArxivUrl ELSE value("serverUrl", LocalUrl)
    /\ key = IF direct THEN "" ELSE value("apiKey", DefaultKey)

\* the program is started again: MainWindow.__init__ runs load_config
load_config ==
    /\ Loaded(use_direct_arxiv', use_local_network', server_url', api_key',
              local_server_url', local_api_key', external_server_url',
              external_api_key')
    /\ UNCHANGED <<settings, switched>>
    /\ UNCHANGED <<bvars, svars, avars, fvars>>

\* the server and key of the profile in use
ProfileUrl(local) == IF local THEN local_server_url ELSE external_server_url

ProfileKey(local) == IF local THEN local_api_key ELSE external_api_key

NotSwitched == [op |-> "none", arg |-> FALSE, returned |-> FALSE, tick |-> FALSE]

Called(op, arg, returned) ==
    [op |-> op, arg |-> arg, returned |-> returned, tick |-> ~switched.tick]

\* if self.use_direct_arxiv == use_direct_arxiv: return
SameMode(direct) == use_direct_arxiv = direct

\* switch_mode, from the two actions of the mode menu
switch_mode ==
    \E direct \in BOOLEAN :
      /\ switched' = Called("switch_mode", direct, SameMode(direct))
      /\ IF SameMode(direct)
         THEN UNCHANGED <<use_direct_arxiv, server_url, api_key, settings>>
         ELSE /\ use_direct_arxiv' = direct
              /\ server_url' = IF direct THEN ArxivUrl
                                ELSE ProfileUrl(use_local_network)
              /\ api_key' = IF direct THEN "" ELSE ProfileKey(use_local_network)
              /\ settings' = setValues([useDirectArxiv |-> Stored(direct),
                                        serverUrl |-> server_url',
                                        apiKey |-> api_key'])
      /\ UNCHANGED <<use_local_network, local_server_url, local_api_key,
                     external_server_url, external_api_key>>
      /\ UNCHANGED <<bvars, svars, avars, fvars>>

\* the test without the mode
SameProfile_ModeUntested(local) == use_local_network = local

\* if self.use_direct_arxiv or self.use_local_network == use_local_network:
\*     return
SameProfile(local) == use_direct_arxiv \/ use_local_network = local

\* switch_network_environment, from the two actions of the network menu
switch_network_environment ==
    \E local \in BOOLEAN :
      /\ switched' = Called("switch_network_environment", local, SameProfile(local))
      /\ IF SameProfile(local)
         THEN UNCHANGED <<use_local_network, server_url, api_key, settings>>
         ELSE /\ use_local_network' = local
              /\ server_url' = ProfileUrl(local)
              /\ api_key' = ProfileKey(local)
              /\ settings' = setValues([useLocalNetwork |-> Stored(local),
                                        serverUrl |-> server_url',
                                        apiKey |-> api_key'])
      /\ UNCHANGED <<use_direct_arxiv, local_server_url, local_api_key,
                     external_server_url, external_api_key>>
      /\ UNCHANGED <<bvars, svars, avars, fvars>>

\* ConfigDialog.get_active_server_url and get_active_api_key
get_active_server_url(direct, local, lurl, eurl) ==
    IF direct THEN ArxivUrl ELSE IF local THEN lurl ELSE eurl

get_active_api_key(direct, local, lkey, ekey) ==
    IF direct THEN "" ELSE IF local THEN lkey ELSE ekey

\* open_settings with the dialog accepted: ConfigDialog.accept writes the
\* store, open_settings copies the dialog into the window
open_settings ==
    \E direct, local \in BOOLEAN, lurl, eurl \in Urls, lkey, ekey \in Keys :
      /\ settings' = setValues(
            [useDirectArxiv |-> Stored(direct), useLocalNetwork |-> Stored(local),
             localServerUrl |-> lurl, localApiKey |-> lkey,
             externalServerUrl |-> eurl, externalApiKey |-> ekey,
             serverUrl |-> get_active_server_url(direct, local, lurl, eurl),
             apiKey |-> get_active_api_key(direct, local, lkey, ekey)])
      /\ use_direct_arxiv' = direct
      /\ use_local_network' = local
      /\ local_server_url' = lurl
      /\ local_api_key' = lkey
      /\ external_server_url' = eurl
      /\ external_api_key' = ekey
      /\ server_url' = get_active_server_url(direct, local, lurl, eurl)
      /\ api_key' = get_active_api_key(direct, local, lkey, ekey)
      /\ UNCHANGED switched
      /\ UNCHANGED <<bvars, svars, avars, fvars>>

\* open_network_test with the dialog accepted ("use this configuration")
open_network_test ==
    \E new_url \in Urls, new_key \in Keys :
      /\ new_url # server_url \/ new_key # api_key
      /\ server_url' = new_url
      /\ api_key' = new_key
      /\ IF use_direct_arxiv
         THEN /\ settings' = setValues([serverUrl |-> new_url, apiKey |-> new_key])
              /\ UNCHANGED <<local_server_url, local_api_key, external_server_url,
                             external_api_key>>
         ELSE IF use_local_network
         THEN /\ local_server_url' = new_url
              /\ local_api_key' = new_key
              /\ settings' = setValues([serverUrl |-> new_url, apiKey |-> new_key,
                                        localServerUrl |-> new_url,
                                        localApiKey |-> new_key])
              /\ UNCHANGED <<external_server_url, external_api_key>>
         ELSE /\ external_server_url' = new_url
              /\ external_api_key' = new_key
              /\ settings' = setValues([serverUrl |-> new_url, apiKey |-> new_key,
                                        externalServerUrl |-> new_url,
                                        externalApiKey |-> new_key])
              /\ UNCHANGED <<local_server_url, local_api_key>>
      /\ UNCHANGED <<use_direct_arxiv, use_local_network, switched>>
      /\ UNCHANGED <<bvars, svars, avars, fvars>>

\* The stores the program starts from: none yet, or the one a switch to direct
\* mode leaves behind.
StartStores ==
    {NoSettings,
     [NoSettings EXCEPT !["useDirectArxiv"] = "true", !["serverUrl"] = ArxivUrl,
                        !["apiKey"] = ""]}

\* MainWindow.__init__: the configuration is loaded from the store
ConfigLoaded ==
    /\ settings \in StartStores
    /\ switched = NotSwitched
    /\ Loaded(use_direct_arxiv, use_local_network, server_url, api_key,
              local_server_url, local_api_key, external_server_url, external_api_key)

\* ======================================================== specifications
Init ==
    /\ ConfigLoaded
    /\ DownloadIdle
    /\ SearchIdle
    /\ program = "client"
    /\ ServerIdle
    /\ FunctionsIdle

\* A download batch.
Spec == Init /\ [][Next]_vars

\* The search form.
SearchNext ==
    \/ search_papers
    \/ handle_arxiv_api_reply
    \/ handle_search_reply
    \/ sort_changed
    \/ toggle_sort_order

SpecSearch == Init /\ [][SearchNext]_vars

\* The search form when every request issued finishes: reply.finished is
\* emitted for each, and the event loop then runs the handler connected to it.
SpecSearchFinishes ==
    /\ SpecSearch
    /\ WF_vars(handle_arxiv_api_reply)
    /\ WF_vars(handle_search_reply)

\* A search, by the client's form or by search_arxiv.
InitRequests ==
    /\ ConfigLoaded
    /\ DownloadIdle
    /\ SearchIdle
    /\ program \in {"client", "server"}
    /\ ServerIdle
    /\ FunctionsIdle

RequestsNext ==
    \/ program = "client" /\ search_papers
    \/ program = "client" /\ handle_arxiv_api_reply
    \/ program = "client" /\ handle_search_reply
    \/ program = "client" /\ sort_changed
    \/ program = "client" /\ toggle_sort_order
    \/ search_arxiv
    \/ page_failed
    \/ page_arrived

SpecRequests == InitRequests /\ [][RequestsNext]_vars

\* The configuration: the menus, the two dialogs, and a restart.
ConfigNext ==
    \/ load_config
    \/ switch_mode
    \/ switch_network_environment
    \/ open_settings
    \/ open_network_test

SpecConfig == Init /\ [][ConfigNext]_vars

\* parse_arxiv_api_response, on every document
InitParse ==
    /\ ConfigLoaded
    /\ DownloadIdle
    /\ SearchIdle
    /\ program = "client"
    /\ ServerIdle
    /\ ParseIdle
    /\ x_xml \in FeedsOf(AnyEntry)
    /\ QueryIdle
    /\ q_args = NoArgs
    /\ NameIdle
    /\ n_record = NoRecord

SpecParse == InitParse /\ [][parse]_vars

\* the query builders, on every criteria
InitQuery ==
    /\ ConfigLoaded
    /\ DownloadIdle
    /\ SearchIdle
    /\ program = "client"
    /\ ServerIdle
    /\ ParseIdle
    /\ x_xml = [kind |-> "feed", entries |-> <<>>]
    /\ QueryIdle
    /\ q_args \in Criteria
    /\ NameIdle
    /\ n_record = NoRecord

SpecQuery == InitQuery /\ [][build_query]_vars

\* the file naming, on every record
InitName ==
    /\ ConfigLoaded
    /\ DownloadIdle
    /\ SearchIdle
    /\ program = "client"
    /\ ServerIdle
    /\ ParseIdle
    /\ x_xml = [kind |-> "feed", entries |-> <<>>]
    /\ QueryIdle
    /\ q_args = NoArgs
    /\ NameIdle
    /\ n_record \in [entry_id : EntryIds, title : Titles]

SpecName == InitName /\ [][name_file]_vars

\* ------------------------------------------------------------ vocabulary
Records == 1..Len(selected_papers)

Log == 1..Len(requests)

Pending == {k \in Log : requests[k].state = "pending"}

RequestsFor(rec) == {k \in Log : requests[k].rec = rec}

SavedSet == {saved[k] : k \in 1..Len(saved)}

\* Files whose content came from a transfer made for record rec.
FilesFrom(rec) == {f \in FileNames : files[f].src \in RequestsFor(rec)}

LoopLeft == pc \in {"summary", "done", "crashed"}

\* ----------------------------------------------------------------- claims

\* C1: once cancellation has been signaled no further request is issued; when
\* it is signaled after record k has completed (that is, before record k+1's
\* request), no request is issued for any record after k and at most k
\* records are saved.
C1_NoRequestAfterCancel ==
    /\ \A k \in Log : ~requests[k].late
    /\ cancel_at.point = "top" =>
          /\ \A k \in Log : requests[k].rec < cancel_at.rec
          /\ completed <= cancel_at.rec - 1

\* C2: an error that is no user cancellation never aborts the batch: when the
\* loop is left without a cancellation, every record has been attempted.
C2_ErrorsNeverAbort ==
    (LoopLeft /\ cancel_at = NoCancel) => attempted = Records

\* C3: every batch reaches its summary (it never ends in an uncaught
\* exception), and the summary reports failure exactly when completed = 0.
C3_AlwaysSummary ==
    /\ pc # "crashed"
    /\ pc = "done" => (report = "warning" <=> completed = 0)
    /\ pc = "done" => (report = "information" <=> completed > 0)

\* C4: when cancellation is signaled while a request is outstanding, no
\* request stays outstanding, nothing is written and nothing is counted for
\* that record, and no later record is processed.
C4_CancelMidRequest ==
    cancel_at.point = "wait" =>
        /\ Pending = {}
        /\ cancel_at.rec \notin SavedSet
        /\ FilesFrom(cancel_at.rec) = {}
        /\ completed <= cancel_at.rec - 1
        /\ i <= cancel_at.rec + 1
        /\ \A r \in attempted : r <= cancel_at.rec
        /\ \A k \in Log : requests[k].rec <= cancel_at.rec /\ ~requests[k].late

C4_Witness ==
    /\ cancel_at.point = "wait"
    /\ pc = "done"
    /\ cancel_at.rec < Len(selected_papers)
    /\ \E k \in Log : requests[k].state = "aborted"

\* C5: at most one request of the batch is in flight, and a record's fetch
\* GET is issued only after its resolve POST has finished with a response
\* that was read and carried a link.
C5_OneInFlight ==
    /\ Cardinality(Pending) <= 1
    /\ \A k \in Log : requests[k].kind = "FILE" =>
          \E j \in 1..(k - 1) :
              /\ requests[j].rec = requests[k].rec
              /\ requests[j].kind = "POST"
              /\ requests[j].state = "ok"
              /\ requests[j].body.kind = "link"

C5_Witness ==
    /\ \E k \in Pending : requests[k].kind = "FILE"
    /\ Len(requests) >= 3

\* C6: a resolution response with success false or without a link causes no
\* fetch request and no file for that record, and the next record is taken up.
C6_ResolutionFailureSkips ==
    \A k \in Log :
        (/\ requests[k].kind = "POST"
         /\ requests[k].state = "ok"
         /\ requests[k].body.kind \in {"failure", "nolink"})
        => LET rec == requests[k].rec
           IN  /\ \A j \in RequestsFor(rec) : requests[j].kind # "FILE"
               /\ rec \notin SavedSet
               /\ FilesFrom(rec) = {}
               /\ (pc = "p_resolved" /\ i = rec) \/ i > rec
               /\ (LoopLeft /\ cancel_at = NoCancel /\ rec < Len(selected_papers))
                     => rec + 1 \in attempted

C6_Witness ==
    /\ pc = "done"
    /\ \E k \in Log :
          /\ requests[k].kind = "POST"
          /\ requests[k].state = "ok"
          /\ requests[k].body.kind = "nolink"
          /\ requests[k].rec + 1 \in SavedSet

\* C7: in direct mode a record without pdf_url causes no request and no file
\* and does not stop the batch; when every transfer and every write succeeds
\* and nobody cancels, completed is the number of records with a pdf_url.
WithPdf == {r \in Records : selected_papers[r].has_pdf}

CleanRun ==
    /\ cancel_at = NoCancel
    /\ io_errors = {}
    /\ \A k \in Log : requests[k].state = "ok"

C7_NoPdfUrlSkipped ==
    use_direct_arxiv =>
        /\ \A r \in Records \ WithPdf :
              /\ RequestsFor(r) = {}
              /\ r \notin SavedSet
              /\ FilesFrom(r) = {}
        /\ (LoopLeft /\ cancel_at = NoCancel) => attempted = Records
        /\ (pc = "done" /\ CleanRun) => completed = Cardinality(WithPdf)

C7_Witness ==
    /\ use_direct_arxiv
    /\ pc = "done"
    /\ CleanRun
    /\ Len(selected_papers) = 2
    /\ selected_papers[1].has_pdf
    /\ ~selected_papers[2].has_pdf
    /\ completed = 1

\* The state part of C8: completed is the number of successful saves of this
\* batch, one per saved record, and never more than the records processed.
C8_Counts ==
    /\ completed = Len(saved)
    /\ \A a, b \in 1..Len(saved) : a < b => saved[a] < saved[b]
    /\ \A r \in SavedSet :
          /\ r \in attempted
          /\ r \notin io_errors
          /\ \E k \in RequestsFor(r) : requests[k].state = "ok"
    /\ completed <= Cardinality(attempted)

\* C8, in full: the count is right in every state and no step lowers it.
C8_CompletedCount == [](C8_Counts) /\ [][completed' >= completed]_vars

C8_Witness ==
    /\ completed = 2
    /\ pc = "done"

\* C9: a batch stopped by the user is not reported as a failure: its summary
\* differs from the one a batch gets whose requests failed in transport (the
\* warning "nothing was downloaded, check the network connection").
C9_CancelNotFailure ==
    (pc = "done" /\ cancel_at # NoCancel) => report # "warning"

\* C10: a search whose keyword text holds no token (empty or blanks only) is
\* rejected locally: no request goes out for it, in either mode.
C10_NoTokenNoRequest ==
    \A k \in 1..Len(searches) : Split(searches[k].keywords) # <<>>
Invoked == started' = started + 1

\* C11, amended: a search the client's form accepts sends exactly one request,
\* a GET in direct mode and a POST in proxied mode; no handler of the client,
\* whatever the reply, sends another.  search_arxiv sends the first request
\* once and sends it again only after a failure, at most num_retries times.
C11_ClientStep ==
    IF Invoked
    THEN \/ /\ search_result' = "validation"
            /\ issued' = issued
            /\ searches' = searches
         \/ /\ issued' = issued + 1
            /\ Len(searches') = Len(searches) + 1
            /\ searches'[Len(searches')].method
                   = IF use_direct_arxiv THEN "GET" ELSE "POST"
    ELSE /\ issued' = issued
         /\ Len(searches') <= Len(searches)

C11_ServerState ==
    /\ sa_requests <= 1 + num_retries
    /\ sa_requests = IF sa_pc = "idle" \/ construct_query(sa_args.keywords,
                                                          sa_args.search_mode) = <<>>
                     THEN 0 ELSE 1 + sa_tries

C12_DirectHasNoKey == use_direct_arxiv => api_key = ""

\* the entries of the document that lack no node, in document order
WellFormed(entries) == SelectSeq(entries, LAMBDA entry : entry.lacks = "none")

\* the record of a well-formed entry
RecordOf(entry) ==
    [title |-> entry.title, published |-> entry.published, entry_id |-> "id"]

\* C13: an entry that lacks title, summary, published, updated or id is dropped,
\* the well-formed entries are still returned, and the parse never fails as a
\* whole.  The parser raises on the first entry without a title, summary,
\* published or updated node, and keeps an entry without an id.
C13_LackingEntryDropped ==
    x_pc = "parsed" /\ x_xml.kind = "feed"
        => /\ ~x_parsed.raised
           /\ x_parsed.papers
                 = [k \in 1..Len(WellFormed(x_xml.entries)) |->
                        RecordOf(WellFormed(x_xml.entries)[k])]

\* C14: a direct-mode search answered with an unparsable document ends in a
\* parse error and leaves no result record, neither displayed nor available
\* to export or download.  The records of the search before stay in
\* MainWindow.papers, which the export functions write.
C14_UnparsableLeavesNothing ==
    use_direct_arxiv /\ last_body.kind = "unparsable"
        => /\ search_result \in {"parse", "validation"}
           /\ papers = <<>>
           /\ table_papers = <<>>

\* a reply handler ran: a pending search reply was taken off
Handled == Len(searches') < Len(searches)

\* C15: a proxied search whose envelope has success = false ends in a backend
\* error that carries the server's message, and yields no record: the handler
\* stores none, and after a first search nothing is displayed or held.
C15_FailureStep ==
    Handled /\ last_body'.kind = "failure" /\ last_body'.error # ""
        => /\ search_result' = "backend"
           /\ search_message' = last_body'.error
           /\ papers' = papers
           /\ table_papers' = table_papers

C15_FirstSearch ==
    started = 1 /\ last_body.kind = "failure"
        => /\ search_result = "backend"
           /\ papers = <<>>
           /\ table_papers = <<>>

C15_BackendError == [](C15_FirstSearch) /\ [][C15_FailureStep]_vars

C15_Witness ==
    /\ ~use_direct_arxiv
    /\ last_body = [kind |-> "failure", error |-> "bad query", records |-> <<>>]
    /\ search_result = "backend"
    /\ search_message = "bad query"
    /\ papers = <<>>
    /\ table_papers = <<>>

\* C16: a proxied answer that is not a JSON object, or is an object without
\* a success flag, ends in a parse error, neither a backend error nor an
\* empty result.  An object without the flag is reported as a backend error.
C16_InvalidEnvelopeIsParseError ==
    ~use_direct_arxiv /\ last_body.kind \in {"notobject", "noflag"}
        => search_result \in {"parse", "validation"}

\* every entry of the parsed document is well formed
AllWellFormed ==
    /\ x_pc = "parsed"
    /\ x_xml.kind = "feed"
    /\ \A k \in 1..Len(x_xml.entries) : x_xml.entries[k].lacks = "none"

\* C17: a feed of N well-formed entries is normalized into exactly N records,
\* the k-th record from the k-th entry, equal entries included.
C17_OneRecordPerEntry ==
    AllWellFormed
        => /\ ~x_parsed.raised
           /\ Len(x_parsed.papers) = Len(x_xml.entries)
           /\ \A k \in 1..Len(x_xml.entries) :
                 x_parsed.papers[k] = RecordOf(x_xml.entries[k])

C17_Witness ==
    /\ AllWellFormed
    /\ Len(x_xml.entries) = MaxEntries
    /\ x_xml.entries[1] = x_xml.entries[2]
    /\ Len(x_parsed.papers) = MaxEntries

\* the two sequences hold the same records, each as often
SameRecords(a, b) ==
    /\ Len(a) = Len(b)
    /\ \A r \in {a[k] : k \in 1..Len(a)} :
          Cardinality({k \in 1..Len(a) : a[k] = r})
              = Cardinality({k \in 1..Len(b) : b[k] = r})

\* no record stands before one that the sort puts first
Ordered(seq, column, desc) ==
    \A k \in 1..Len(seq) - 1 : ~Before(seq[k + 1], seq[k], column, desc)

\* a search ended with its records stored
Found == Handled /\ search_result' = "found"

\* the year lies in the range search_arxiv was given
InRange(paper) ==
    /\ sa_args.start_year # 0 => paper.published >= sa_args.start_year
    /\ sa_args.end_year # 0 => paper.published <= sa_args.end_year

\* C18 as stated: what a successful search hands on is the normalized response
\* unchanged, not re-sorted and not filtered by year, whatever the sort
\* selection.  The table is sorted by the selected column, and search_arxiv
\* filters what it fetched by year.
C18_HandedOnUnchanged ==
    /\ [][Found => papers' = last_body'.records /\ table_papers' = last_body'.records]_vars
    /\ [](sa_pc = "returned" => sa_return = sa_fetched)

\* C18, amended: on a successful search MainWindow.papers is the normalized
\* response unchanged, whatever the sort selection; the table shows the same
\* records, in the order of the response under the default sort and in the
\* order of the selected column and direction otherwise.  search_arxiv returns
\* the fetched results whose year lies in the range, in their order.
C18_FoundStep ==
    Found => /\ papers' = last_body'.records
             /\ SameRecords(table_papers', papers')
             /\ sort_column = "none" => table_papers' = papers'

C18_Table ==
    /\ table_papers = <<>> \/ SameRecords(table_papers, papers)
    /\ sort_column # "none" => Ordered(table_papers, sort_column, sort_desc)

C18_Returned ==
    sa_pc = "returned" => sa_return = SelectSeq(sa_fetched, InRange)

C18_PapersUnchanged ==
    /\ [][C18_FoundStep]_vars
    /\ [](C18_Table)
    /\ [](C18_Returned)

C18_Witness ==
    /\ search_result = "found"
    /\ sort_column # "none"
    /\ papers = last_body.records
    /\ Len(papers) = MaxEntries
    /\ table_papers # papers
    /\ SameRecords(table_papers, papers)

\* the part occurs in the query at the place
Occurs(query, part, at) ==
    /\ at + Len(part) - 1 <= Len(query)
    /\ SubSeq(query, at, at + Len(part) - 1) = part

\* the clauses occur in the query, in order and without overlap, from the place on
RECURSIVE ClausesFrom(_, _, _)
ClausesFrom(query, clauses, at) ==
    \/ clauses = <<>>
    \/ \E place \in at..Len(query) :
          /\ Occurs(query, clauses[1], place)
          /\ ClausesFrom(query, Tail(clauses), place + Len(clauses[1]))

\* the clause the claim gives a keyword: both fields, by AND or by OR
FieldsClause(keyword, search_mode) ==
    <<"(", "ti:">> \o keyword
        \o <<IF search_mode = "precise" THEN " AND " ELSE " OR ", "abs:">>
        \o keyword \o <<")">>

\* one such clause per keyword and no other clause
OneClausePerKeyword(query, keyword_list, search_mode) ==
    /\ ClausesFrom(query,
                   [k \in 1..Len(keyword_list) |->
                       FieldsClause(keyword_list[k], search_mode)], 1)
    /\ Cardinality({place \in 1..Len(query) : query[place] = "("}) = Len(keyword_list)
    /\ \A place \in 1..Len(query) : query[place] # "all:"

\* the builders have run on criteria with at least one keyword
Built == q_pc = "built" /\ Split(q_args.keywords) # <<>>

\* C19: for every non-empty keyword set the direct-mode query has one clause
\* per keyword, (ti:k AND abs:k) in precise mode and (ti:k OR abs:k) in fuzzy
\* mode.  The client's direct mode writes all:"k" for every keyword.
C19_ClausePerKeyword ==
    Built => /\ OneClausePerKeyword(q_server, Split(q_args.keywords), q_args.search_mode)
             /\ OneClausePerKeyword(q_client, Split(q_args.keywords), q_args.search_mode)

\* how many parentheses are open at the place
Depth(query, place) ==
    Cardinality({p \in 1..place - 1 : query[p] = "("})
        - Cardinality({p \in 1..place - 1 : query[p] = ")"})

\* the operators that stand between clauses, not inside one
Joiners(query) ==
    {place \in 1..Len(query) :
        query[place] \in {" AND ", " OR "} /\ Depth(query, place) = 0}

\* C20: in precise and in fuzzy mode the per-keyword clauses of the direct-mode
\* query are joined with AND; the mode changes only the operator inside a
\* clause.  The client's direct mode joins its clauses with OR in fuzzy mode.
C20_JoinedByAnd ==
    Built => /\ \A place \in Joiners(q_server) : q_server[place] = " AND "
             /\ \A place \in Joiners(q_client) : q_client[place] = " AND "

\* the places of the query where a date clause starts
DateClauses(query) == {place \in 1..Len(query) : query[place] = "submittedDate:["}

\* the query ends in the part
EndsIn(query, part) ==
    /\ Len(query) >= Len(part)
    /\ SubSeq(query, Len(query) - Len(part) + 1, Len(query)) = part

\* the date clause with the two bounds, joined to what stands before it by AND
RangeClause(from, to) ==
    <<" AND ", "submittedDate:[">> \o from \o <<" TO ">> \o to \o <<"]">>

\* C21: the date clause of the direct-mode query is [<start>0101 TO <end>1231]
\* when both years are given, [<start>0101 TO 99991231] when only the start
\* year is, [00010101 TO <end>1231] when only the end year is, and there is
\* no date clause when neither is given.
C21_DateClause ==
    q_pc = "built"
        => LET start == q_args.start_year
               end == q_args.end_year
               from == IF start # 0 THEN <<YearText(start), "0101">> ELSE <<"00010101">>
               to == IF end # 0 THEN <<YearText(end), "1231">> ELSE <<"99991231">>
           IN  IF start = 0 /\ end = 0
               THEN DateClauses(q_client) = {}
               ELSE /\ Cardinality(DateClauses(q_client)) = 1
                    /\ EndsIn(q_client, RangeClause(from, to))

C21_Witness ==
    /\ Built
    /\ q_args.start_year # 0
    /\ q_args.end_year = 0
    /\ EndsIn(q_client,
              RangeClause(<<YearText(q_args.start_year), "0101">>, <<"99991231">>))

\* search_arxiv was given both years, the start year after the end year
Inverted ==
    /\ sa_args.start_year # 0
    /\ sa_args.end_year # 0
    /\ sa_args.start_year > sa_args.end_year

\* C22: a search with an inverted year range is not rejected, its request is
\* sent as for any other range, and it yields no match: whatever was fetched,
\* no record passes the year filter.
C22_InvertedRangeEmpty ==
    Inverted
        => /\ sa_pc = "returned" => sa_return = <<>>
           /\ construct_query(sa_args.keywords, sa_args.search_mode) # <<>>
                 => sa_requests >= 1

C22_Witness ==
    /\ Inverted
    /\ sa_pc = "returned"
    /\ sa_requests = 1
    /\ Len(sa_fetched) = MaxEntries
    /\ sa_return = <<>>

\* the characters a file name may hold
Allowed == Alnum \cup Kept

\* a bound on the whole name of the size of the cap: the capped title, the
\* separator, the extension, and as much as the cap again for the id
NameBound == title_cap + 1 + Len(Pdf) + title_cap

\* C23: for every id and title the file name of a direct-mode download holds
\* allowed characters only, every other character of the title being replaced
\* by '_', and its length stays within a fixed bound.  The id is written into
\* the name as it is, neither cleaned nor capped.
C23_SafeFilename ==
    n_pc = "named"
        => /\ \A k \in 1..Len(n_filename) : n_filename[k] \in Allowed
           /\ Len(n_filename) <= NameBound

\* ------------------------------------------------------------------- C24
\* the paths of the destination directory that hold a file
Paths == {f \in FileNames : files[f] # NoFile}

\* the transfer that carried the bytes of record j of the batch
TransferOf(j) ==
    CHOOSE r \in 1..Len(requests) :
        requests[r].rec = j /\ requests[r].kind \in {"GET", "FILE"}

\* the download_link the server answered for record j of the batch
LinkOf(j) ==
    LET r == CHOOSE r \in 1..Len(requests) :
                 requests[r].rec = j /\ requests[r].kind = "POST"
    IN  requests[r].body.link

\* record i is saved now, and record k of the batch, the same record, was
\* saved before
SavedAgain(k) ==
    /\ saved' = Append(saved, i)
    /\ \E n \in 1..Len(saved) : saved[n] = k
    /\ selected_papers[k] = selected_papers[i]

\* the second write took the place of the first: the directory has the paths
\* it had, one of them holds the whole of the second transfer, none holds the
\* first transfer any more
Overwritten(k) ==
    /\ Paths' = Paths
    /\ \E f \in FileNames : files'[f] = [src |-> TransferOf(i), whole |-> TRUE]
    /\ \A f \in FileNames : files'[f].src # TransferOf(k)

\* C24: downloading the same record twice into the same directory, both
\* downloads succeeding, leaves one file holding the bytes of the second
\* transfer, and the directory has the same set of paths after the second
\* download as after the first.
C24_SecondOverwrites ==
    [][\A k \in 1..Len(selected_papers) : SavedAgain(k) => Overwritten(k)]_vars

\* C24 as amended: the same, in direct mode always, and in proxied mode when
\* the server answers both download requests with the same download_link.
C24_SameNameOverwrites ==
    [][\A k \in 1..Len(selected_papers) :
          SavedAgain(k) /\ (use_direct_arxiv \/ LinkOf(k) = LinkOf(i))
              => Overwritten(k)]_vars

\* the same record was saved twice in one batch and the directory holds one
\* file, with the bytes of the later transfer
C24_Witness ==
    /\ pc = "done"
    /\ saved = <<1, 2>>
    /\ selected_papers[1] = selected_papers[2]
    /\ Cardinality(Paths) = 1
    /\ \E f \in FileNames : files[f] = [src |-> TransferOf(2), whole |-> TRUE]

\* ------------------------------------------------------------------- C25
\* C25: at most one search request is outstanding at any time: between the
\* start of a search and the handling of its reply no second search is
\* started, by the button or by Return in the keyword field.
C25_OneOutstanding == Len(searches) <= 1

\* ------------------------------------------------------------------- C26
\* C26: in every reachable state the list the export functions write
\* (MainWindow.papers) holds the same records as the list the result table
\* shows (PaperModel.papers), so that once a search has started or failed,
\* export writes no record of an earlier search that is no longer displayed.
C26_ExportIsDisplayed == SameRecords(papers, table_papers)

\* ------------------------------------------------------------------- C27
\* C27: in every reachable state of the configuration in proxied mode, the
\* active server URL and API key are the pair of the network profile in use:
\* the local pair when the local profile is selected, the external pair
\* otherwise.
C27_ActiveIsProfile ==
    ~use_direct_arxiv
        => /\ server_url = ProfileUrl(use_local_network)
           /\ api_key = ProfileKey(use_local_network)

\* ------------------------------------------------------------------- C28
\* C28: after any sequence of configuration changes, loading the
\* configuration again from the persisted store gives the mode, the network
\* profile, the active server URL and API key and the two profiles' pairs
\* that the window held before.
C28_ReloadKeepsConfig ==
    [][load_config => /\ use_direct_arxiv' = use_direct_arxiv
                      /\ cvars' = cvars]_vars

\* ------------------------------------------------------------------- C29
\* the call made in this step asks for what is already so: switch_mode for
\* the mode in use, switch_network_environment in direct mode or for the
\* profile in use
AsksForTheSame ==
    /\ switched' # switched
    /\ \/ /\ switched'.op = "switch_mode"
          /\ switched'.arg = use_direct_arxiv
       \/ /\ switched'.op = "switch_network_environment"
          /\ use_direct_arxiv \/ switched'.arg = use_local_network

\* C29: switch_mode called with the mode already active, and
\* switch_network_environment called in direct mode or with the profile
\* already active, leave the whole configuration as it is: the mode, the
\* profile, the active URL and key, the profiles' pairs and the store.
C29_NoOpSwitch ==
    [][AsksForTheSame =>
          UNCHANGED <<use_direct_arxiv, use_local_network, server_url, api_key,
                      local_server_url, local_api_key, external_server_url,
                      external_api_key, settings>>]_vars

\* switch_network_environment was called in direct mode for the other
\* profile and returned at once
C29_Witness ==
    /\ switched.op = "switch_network_environment"
    /\ switched.returned
    /\ use_direct_arxiv
    /\ switched.arg # use_local_network

\* ------------------------------------------------------------------- C30
\* a call of search_papers that stopped at the validation
ValidationFailed == started' = started + 1 /\ issued' = issued

\* C30: every started search enables the search button again: a search that
\* fails the validation at once, any other once its reply has finished (every
\* request issued is taken to finish); and the button is never disabled with
\* no search request outstanding.
C30_ButtonEnabledAgain ==
    /\ [][ValidationFailed => search_button']_vars
    /\ [](~search_button => searches # <<>>)
    /\ ~search_button ~> search_button

\* a search was started, its reply has been handled without bringing results,
\* and the button is enabled
C30_Witness ==
    /\ issued >= 1
    /\ searches = <<>>
    /\ search_result \in {"network", "parse", "backend"}
    /\ search_button
====
